---- MODULE Spec2Model ----
(***************************************************************************)
(* A state-machine model of the NelderMead class of src/src/nm.h and       *)
(* src/src/nm.cpp: one optimizer object, its configuration setters and the *)
(* exec() call, cut into the steps of its main loop.                       *)
(*                                                                         *)
(* Numbers.  The code computes with doubles.  The model computes with      *)
(* dyadic rationals <<m, e>> = m / 2^e, kept normalised (m odd, or e = 0). *)
(* Sums, differences, products and halvings of dyadic numbers are dyadic,  *)
(* and a double holds every value met here exactly, so for the dimensions  *)
(* 1 and 2 (where the centroid divides by 1 or 2) the arithmetic of the    *)
(* loop is the code's arithmetic with no rounding.  The square roots of    *)
(* doInitialize are rounded to FracBits fractional bits.                   *)
(*                                                                         *)
(* uint32_t.  TLC's integers are 32-bit signed, so a 32-bit unsigned       *)
(* counter cannot be held at its own width.  The two uint32_t counters     *)
(* (iterationCount, evalCount) and configMaxIterations are UintBits wide:  *)
(* they count modulo 2^UintBits exactly as the code counts modulo 2^32.    *)
(***************************************************************************)
EXTENDS Integers, Sequences, FiniteSets, TLC

\* width, in bits, at which the uint32_t fields are modelled
UintBits == 2
\* fractional bits kept by the square roots and the quotient of doInitialize
FracBits == 2

Wrap == 2 ^ UintBits
UintMax == Wrap - 1
\* the loop bodies one exec call may run in the model: one more than a counter
\* of UintBits bits can count, so that only runs that outlive the counter are cut
MaxBodies == Wrap + 1
\* a run is followed while the numbers of its simplex, written over their common
\* denominator 2^E, have E <= ExpLimit and numerators below NumLimit: the next
\* loop body then stays within TLC's integers
ExpLimit == 22
NumLimit == 2 ^ 24

Max(a, b) == IF a >= b THEN a ELSE b
Min(a, b) == IF a <= b THEN a ELSE b
Abs(a) == IF a < 0 THEN 0 - a ELSE a

---------------------------------------------------------------------------
(* double arithmetic, on dyadic rationals *)

RECURSIVE Norm(_, _)
Norm(m, e) == IF e > 0 /\ m % 2 = 0 THEN Norm(m \div 2, e - 1) ELSE <<m, e>>

D(k) == <<k, 0>>
Zero == D(0)
\* the numerator of x over the denominator 2^E, for E >= x[2]
Num(x, E) == x[1] * (2 ^ (E - x[2]))

DAdd(x, y) == LET E == Max(x[2], y[2]) IN Norm(Num(x, E) + Num(y, E), E)
DSub(x, y) == LET E == Max(x[2], y[2]) IN Norm(Num(x, E) - Num(y, E), E)
DMul(x, y) == Norm(x[1] * y[1], x[2] + y[2])
DHalf(x) == Norm(x[1], x[2] + 1)
DNeg(x) == <<0 - x[1], x[2]>>
DAbs(x) == <<Abs(x[1]), x[2]>>
DLess(x, y) == LET E == Max(x[2], y[2]) IN Num(x, E) < Num(y, E)
DLeq(x, y) == ~DLess(y, x)
DFloor(x) == D(x[1] \div (2 ^ x[2]))

\* x / n for the dimensions the model covers: n is 1 or 2
DDivSize(x, n) == IF n = 1 THEN x ELSE DHalf(x)

\* a / b rounded to the nearest multiple of 2^-FracBits (b > 0)
DDivRound(a, b) ==
    LET E == Max(a[2], b[2])
        p == Num(a, E) * (2 ^ FracBits)
        q == Num(b, E)
    IN  Norm((2 * p + q) \div (2 * q), FracBits)

RECURSIVE ISqrtFrom(_, _)
ISqrtFrom(n, r) == IF (r + 1) * (r + 1) > n THEN r ELSE ISqrtFrom(n, r + 1)
\* sqrt(k) for a small natural k, rounded down to FracBits fractional bits
DSqrt(k) == Norm(ISqrtFrom(k * (4 ^ FracBits), 0), FracBits)

---------------------------------------------------------------------------
(* the values the model draws its inputs from *)

\* the dimensions an optimizer is constructed with
Sizes == {1, 2}
\* the objective functions handed to the constructor
EvalFuncs == {"abs", "lin", "cave", "const", "step"}
\* the constraint functions handed to the constructor; "none" is the empty
\* std::function (nullptr in example.cpp)
ConstrainFuncs == {"none", "box", "snap"}
\* the box of the clamping constraint function
BoxLo == D(0)
BoxHi == D(2)
\* arguments of exec
StartCoords == {D(0), D(3)}
Scales == {D(1), D(2)}
Tolerances == {D(0), D(1)}
\* arguments of the setters
MaxIterationsValues == 0 .. UintMax
ReflectionValues == {D(1), D(2)}
ExpansionValues == {D(2), D(3)}
ContractionValues == {DHalf(D(1)), D(1)}

Rows(size) == 0 .. size
Cols(size) == 1 .. size
Points(size) == [Cols(size) -> StartCoords]
ZeroPoint(size) == [i \in Cols(size) |-> Zero]

---------------------------------------------------------------------------
(* the callbacks *)

\* the term the objective fn adds for the coordinate c
Term(fn, c) ==
    CASE fn = "abs" -> DAbs(DSub(c, D(1)))
      [] fn = "lin" -> c
      [] fn = "cave" -> DNeg(DAbs(DSub(c, D(1))))
      [] fn = "step" -> DFloor(c)
      [] OTHER -> Zero

RECURSIVE SumOver(_, _, _)
\* the sum of Term(fn, x[i]) over the coordinates i..Len of the point x
SumOver(fn, x, i) ==
    IF i > Len(x) THEN Zero ELSE DAdd(Term(fn, x[i]), SumOver(fn, x, i + 1))

\* evalFunc(x): deterministic objectives over a point x
Objective(fn, x) == SumOver(fn, x, 1)

\* myConstraints of example.cpp, with the box [BoxLo, BoxHi]
Clamp(c) == IF DLess(c, BoxLo) THEN BoxLo ELSE IF DLess(BoxHi, c) THEN BoxHi ELSE c

\* constrainFunc(x): the point x after the call
Constrained(cf, x) ==
    CASE cf = "box" -> [i \in DOMAIN x |-> Clamp(x[i])]
      [] cf = "snap" -> [i \in DOMAIN x |-> DFloor(x[i])]
      [] OTHER -> x

---------------------------------------------------------------------------
(* the state *)

VARIABLES
    nm,     \* the NelderMead object: its data members
    run,    \* the activation of exec: pc, arguments and locals
    obs     \* history of the current exec call, read by the properties only

vars == <<nm, run, obs>>

\* an indeterminate double or uint32_t
Undef == "undef"

\* the state as one record, for the operators that model the code
State == [nm |-> nm, run |-> run, obs |-> obs]

\* NelderMead::NelderMead and the member initializers of nm.h
Constructed(inSize, inEvalFunc, inConstrainFunc) ==
    [ size |-> inSize,
      evalFunc |-> inEvalFunc,
      constrainFunc |-> inConstrainFunc,
      configMaxIterations |-> Min(1000, UintMax - 1),
      configReflectionCoefficient |-> D(1),
      configContractionCoefficient |-> DHalf(D(1)),
      configExpansionCoefficient |-> D(2),
      v |-> [j \in Rows(inSize) |-> ZeroPoint(inSize)],
      f |-> [j \in Rows(inSize) |-> Zero],
      vr |-> ZeroPoint(inSize),
      ve |-> ZeroPoint(inSize),
      vc |-> ZeroPoint(inSize),
      vm |-> ZeroPoint(inSize),
      evalCount |-> 0,
      vs |-> 0,
      vh |-> 0,
      vg |-> 0,
      lastExecResults |->
          [iterationCount |-> Undef, evalCount |-> Undef, minValues |-> <<>>, min |-> Undef] ]

\* no exec call is active
Idle ==
    [ pc |-> "idle", start |-> <<>>, tolerancee |-> Undef, scale |-> Undef,
      iterationCount |-> Undef, fr |-> Undef, fe |-> Undef, fc |-> Undef, ret |-> Undef ]

\* nothing observed yet
NoHistory(size) ==
    [ left |-> 1,          \* exec calls the caller will still make on this object
      runs |-> 0,          \* exec calls started on this object
      evals |-> 0,         \* calls of evalFunc in this exec call
      raw |-> 0,           \* of these, on a point not constrained since it was computed
      bodies |-> 0,        \* loop bodies entered
      expansions |-> 0,    \* expansion points evaluated
      contractions |-> 0,  \* contraction points evaluated
      shrinks |-> 0,       \* shrinks performed
      itExp |-> FALSE,     \* the current iteration evaluated an expansion point
      itCon |-> FALSE,     \* the current iteration evaluated a contraction point
      itShrink |-> FALSE,  \* the current iteration shrank the simplex
      itRepl |-> 0,        \* replacements of v[vg] in the current iteration, outside the shrink
      clean |-> [v |-> [j \in Rows(size) |-> FALSE], vr |-> FALSE, ve |-> FALSE, vc |-> FALSE],
                           \* the buffer was constrained after it was last computed
      call |-> <<>>,       \* the arguments and the configuration of this exec call
      fStart |-> <<>>,     \* the value table after the initial evaluation
      minPrev |-> Undef,   \* least value of the table at the end of the iteration before
      minNow |-> Undef,    \* least value of the table at the end of the last iteration
      twin |-> <<>> ]      \* for a call on an object used before: the same call, on
                           \* a freshly constructed object configured alike

Init ==
    /\ \E inSize \in Sizes, inEvalFunc \in EvalFuncs, inConstrainFunc \in ConstrainFuncs :
           /\ nm = Constructed(inSize, inEvalFunc, inConstrainFunc)
           /\ obs = NoHistory(inSize)
    /\ run = Idle

---------------------------------------------------------------------------
(* the private methods, as operators from state to state *)

\* ++ on a uint32_t
Incr(n) == (n + 1) % Wrap

\* doEvaluate(x): counts the call and leaves the returned value in run.ret.
\* clean says whether the buffer x was constrained after it was last computed.
doEvaluate(s, x, clean) ==
    [s EXCEPT !.nm.evalCount = Incr(@),
              !.run.ret = Objective(s.nm.evalFunc, x),
              !.obs.evals = @ + 1,
              !.obs.raw = IF s.nm.constrainFunc # "none" /\ ~clean THEN @ + 1 ELSE @]

\* pn and qn of doInitialize
Pn(size, scale) ==
    DDivRound(DMul(scale, DAdd(DSub(DSqrt(size + 1), D(1)), D(size))),
              DMul(D(size), DSqrt(2)))
Qn(size, scale) ==
    DDivRound(DMul(scale, DSub(DSqrt(size + 1), D(1))),
              DMul(D(size), DSqrt(2)))

\* the simplex doInitialize builds: row 0 is start, row i moves coordinate i-1
\* by pn and the others by qn (columns are numbered from 1 here)
StartSimplex(size, start, scale) ==
    [i \in Rows(size) |->
        [j \in Cols(size) |->
            IF i = 0 THEN start[j]
            ELSE IF i = j THEN DAdd(Pn(size, scale), start[j])
            ELSE DAdd(Qn(size, scale), start[j])]]

\* doInitialize without the reset of the role indices
doInitialize_StaleIndexes(s, start, scale) ==
    [s EXCEPT !.nm.evalCount = 0,
              !.nm.v = StartSimplex(s.nm.size, start, scale),
              !.obs.clean.v = [j \in Rows(s.nm.size) |-> FALSE]]

doInitialize(s, start, scale) ==
    [s EXCEPT !.nm.evalCount = 0,
              !.nm.vs = 0,
              !.nm.vh = 0,
              !.nm.vg = 0,
              !.nm.v = StartSimplex(s.nm.size, start, scale),
              !.obs.clean.v = [j \in Rows(s.nm.size) |-> FALSE]]

\* ConstrainRow with the call left out
ConstrainRow_Skipped(s, j) == s

\* constrainFunc(v[j]), when a constraint function was supplied
ConstrainRow(s, j) ==
    IF s.nm.constrainFunc = "none" THEN s
    ELSE [s EXCEPT !.nm.v[j] = Constrained(s.nm.constrainFunc, @),
                   !.obs.clean.v[j] = TRUE]

\* f[j] = doEvaluate(v[j])
EvaluateRow(s, j) ==
    LET t == doEvaluate(s, s.nm.v[j], s.obs.clean.v[j])
    IN  [t EXCEPT !.nm.f[j] = t.run.ret]

RECURSIVE ConstrainRows(_, _)
\* for (j = from; j <= size; j++) constrainFunc(v[j])
ConstrainRows(s, from) ==
    IF from > s.nm.size THEN s ELSE ConstrainRows(ConstrainRow(s, from), from + 1)

RECURSIVE EvaluateRows(_, _)
\* for (j = from; j <= size; j++) f[j] = doEvaluate(v[j])
EvaluateRows(s, from) ==
    IF from > s.nm.size THEN s ELSE EvaluateRows(EvaluateRow(s, from), from + 1)

RECURSIVE ScanExtremes(_, _, _, _)
\* the first loop of doIndexes from index j on: <<vg, vs>>
ScanExtremes(f, j, vg, vs) ==
    IF j \notin DOMAIN f THEN <<vg, vs>>
    ELSE ScanExtremes(f, j + 1,
                      IF DLess(f[vg], f[j]) THEN j ELSE vg,
                      IF DLess(f[j], f[vs]) THEN j ELSE vs)

RECURSIVE ScanSecond_LastWins(_, _, _, _)
\* ScanSecond with f[j] >= f[vh] for f[j] > f[vh]
ScanSecond_LastWins(f, j, vg, vh) ==
    IF j \notin DOMAIN f THEN vh
    ELSE ScanSecond_LastWins(f, j + 1, vg,
                    IF DLeq(f[vh], f[j]) /\ DLess(f[j], f[vg]) THEN j ELSE vh)

RECURSIVE ScanSecond(_, _, _, _)
\* the second loop of doIndexes from index j on: vh
ScanSecond(f, j, vg, vh) ==
    IF j \notin DOMAIN f THEN vh
    ELSE ScanSecond(f, j + 1, vg,
                    IF DLess(f[vh], f[j]) /\ DLess(f[j], f[vg]) THEN j ELSE vh)

doIndexes(s) ==
    LET gs == ScanExtremes(s.nm.f, 0, s.nm.vg, s.nm.vs)
    IN  [s EXCEPT !.nm.vg = gs[1],
                  !.nm.vs = gs[2],
                  !.nm.vh = ScanSecond(s.nm.f, 0, gs[1], gs[2])]

---------------------------------------------------------------------------
(* the convergence test, in exact integer arithmetic *)

\* Squares of the numerators do not fit TLC's integers: a natural is held as
\* <<hi, lo>> = hi * Limb^2 + lo with lo < Limb^2.
Limb == 2 ^ 13
Wide(hi, lo) == <<hi + lo \div (Limb * Limb), lo % (Limb * Limb)>>
\* a * a, for 0 <= a < Limb^2
WSquare(a) ==
    LET ah == a \div Limb
        al == a % Limb
        mid == 2 * ah * al
    IN  Wide(ah * ah + mid \div Limb, (mid % Limb) * Limb + al * al)
WAdd(x, y) == Wide(x[1] + y[1], x[2] + y[2])
\* k * x, for a small natural k
WTimes(k, x) == Wide(k * x[1] + (k * x[2]) \div (Limb * Limb), (k * x[2]) % (Limb * Limb))
WLess(x, y) == x[1] < y[1] \/ (x[1] = y[1] /\ x[2] < y[2])

RECURSIVE SumNum(_, _, _)
\* the sum of the numerators of f[j..] over 2^E
SumNum(f, j, E) == IF j \notin DOMAIN f THEN 0 ELSE Num(f[j], E) + SumNum(f, j + 1, E)

RECURSIVE MaxExp(_, _)
\* the greatest exponent among f[j..]
MaxExp(f, j) == IF j \notin DOMAIN f THEN 0 ELSE Max(f[j][2], MaxExp(f, j + 1))

RECURSIVE SumSquares(_, _, _, _, _)
\* the sum over j.. of (n * f[j] - fsum)^2, numerators over 2^E
SumSquares(f, j, E, n, fsum) ==
    IF j \notin DOMAIN f THEN <<0, 0>>
    ELSE WAdd(WSquare(Abs(n * Num(f[j], E) - fsum)), SumSquares(f, j + 1, E, n, fsum))

\* s < tolerancee, where s = sqrt(sum_j (f[j] - favg)^2 / size) and
\* favg = fsum / (size + 1).  With n = size + 1 and d[j] = n * f[j] - fsum this is
\* tolerancee > 0 and sum_j d[j]^2 < n^2 * size * tolerancee^2; a single
\* |d[j]| >= n * size * tolerancee already decides against it.
Converged(f, size, tolerancee) ==
    LET E == Max(MaxExp(f, 0), tolerancee[2])
        n == size + 1
        fsum == SumNum(f, 0, E)
        c == Num(tolerancee, E)
    IN  /\ c > 0
        /\ \A j \in DOMAIN f : Abs(n * Num(f[j], E) - fsum) < n * size * c
        /\ WLess(SumSquares(f, 0, E, n, fsum), WTimes(n * n * size, WSquare(c)))

---------------------------------------------------------------------------
(* the body of the loop of exec *)

RECURSIVE ColumnSum(_, _, _, _)
\* the sum of v[m][j] over the rows m.. other than vg
ColumnSum(v, j, m, vg) ==
    IF m \notin DOMAIN v THEN Zero
    ELSE IF m = vg THEN ColumnSum(v, j, m + 1, vg)
    ELSE DAdd(v[m][j], ColumnSum(v, j, m + 1, vg))

\* vm = the centroid of the vertices other than vg
Centroid(s) ==
    [s EXCEPT !.nm.vm = [j \in Cols(s.nm.size) |->
                            DDivSize(ColumnSum(s.nm.v, j, 0, s.nm.vg), s.nm.size)]]

\* constrainFunc(buffer) for the scratch buffers vr, ve, vc
ConstrainVr(s) ==
    IF s.nm.constrainFunc = "none" THEN s
    ELSE [s EXCEPT !.nm.vr = Constrained(s.nm.constrainFunc, @), !.obs.clean.vr = TRUE]
ConstrainVe(s) ==
    IF s.nm.constrainFunc = "none" THEN s
    ELSE [s EXCEPT !.nm.ve = Constrained(s.nm.constrainFunc, @), !.obs.clean.ve = TRUE]
ConstrainVc(s) ==
    IF s.nm.constrainFunc = "none" THEN s
    ELSE [s EXCEPT !.nm.vc = Constrained(s.nm.constrainFunc, @), !.obs.clean.vc = TRUE]

\* v[vg] = x; f[vg] = fx
ReplaceWorst(s, x, fx, clean) ==
    [s EXCEPT !.nm.v[s.nm.vg] = x,
              !.nm.f[s.nm.vg] = fx,
              !.obs.clean.v[s.nm.vg] = clean,
              !.obs.itRepl = @ + 1]

\* vr = vm + reflection * (vm - v[vg]); constrain; fr = doEvaluate(vr)
Reflect(s) ==
    LET a == [s EXCEPT !.nm.vr = [j \in Cols(s.nm.size) |->
                  DAdd(s.nm.vm[j], DMul(s.nm.configReflectionCoefficient,
                                        DSub(s.nm.vm[j], s.nm.v[s.nm.vg][j])))],
                       !.obs.clean.vr = FALSE]
        b == ConstrainVr(a)
        c == doEvaluate(b, b.nm.vr, b.obs.clean.vr)
    IN  [c EXCEPT !.run.fr = c.run.ret]

\* if (fr < f[vh] && fr >= f[vs]) accept the reflection
AcceptReflection(s) ==
    IF DLess(s.run.fr, s.nm.f[s.nm.vh]) /\ DLeq(s.nm.f[s.nm.vs], s.run.fr)
    THEN ReplaceWorst(s, s.nm.vr, s.run.fr, s.obs.clean.vr)
    ELSE s

\* if (fr < f[vs]) try the expansion
Expand(s) ==
    IF ~DLess(s.run.fr, s.nm.f[s.nm.vs]) THEN s
    ELSE
    LET a == [s EXCEPT !.nm.ve = [j \in Cols(s.nm.size) |->
                  DAdd(s.nm.vm[j], DMul(s.nm.configExpansionCoefficient,
                                        DSub(s.nm.vr[j], s.nm.vm[j])))],
                       !.obs.clean.ve = FALSE]
        b == ConstrainVe(a)
        c == doEvaluate(b, b.nm.ve, b.obs.clean.ve)
        d == [c EXCEPT !.run.fe = c.run.ret,
                       !.obs.itExp = TRUE,
                       !.obs.expansions = @ + 1]
    IN  IF DLess(d.run.fe, d.run.fr)
        THEN ReplaceWorst(d, d.nm.ve, d.run.fe, d.obs.clean.ve)
        ELSE ReplaceWorst(d, d.nm.vr, d.run.fr, d.obs.clean.vr)

\* the contraction point: outside when f[vh] <= fr < f[vg], inside otherwise
ContractionPoint(s) ==
    IF DLess(s.run.fr, s.nm.f[s.nm.vg]) /\ DLeq(s.nm.f[s.nm.vh], s.run.fr)
    THEN [j \in Cols(s.nm.size) |->
             DAdd(s.nm.vm[j], DMul(s.nm.configContractionCoefficient,
                                   DSub(s.nm.vr[j], s.nm.vm[j])))]
    ELSE [j \in Cols(s.nm.size) |->
             DSub(s.nm.vm[j], DMul(s.nm.configContractionCoefficient,
                                   DSub(s.nm.vm[j], s.nm.v[s.nm.vg][j])))]

\* ShrinkRows toward v[vg] instead of v[vs]
ShrinkRows_TowardWorst(s) ==
    [s EXCEPT !.nm.v = [row \in Rows(s.nm.size) |->
                  IF row = s.nm.vg THEN s.nm.v[row]
                  ELSE [j \in Cols(s.nm.size) |->
                           DAdd(s.nm.v[s.nm.vg][j],
                                DHalf(DSub(s.nm.v[row][j], s.nm.v[s.nm.vg][j])))]],
              !.obs.clean.v = [row \in Rows(s.nm.size) |->
                  IF row = s.nm.vg THEN s.obs.clean.v[row] ELSE FALSE]]

\* v[row] = v[vs] + (v[row] - v[vs]) / 2.0 for every row but vs
ShrinkRows(s) ==
    [s EXCEPT !.nm.v = [row \in Rows(s.nm.size) |->
                  IF row = s.nm.vs THEN s.nm.v[row]
                  ELSE [j \in Cols(s.nm.size) |->
                           DAdd(s.nm.v[s.nm.vs][j],
                                DHalf(DSub(s.nm.v[row][j], s.nm.v[s.nm.vs][j])))]],
              !.obs.clean.v = [row \in Rows(s.nm.size) |->
                  IF row = s.nm.vs THEN s.obs.clean.v[row] ELSE FALSE]]

\* the shrink up to its re-evaluation of all the vertices
Shrink(s) ==
    LET a == EvaluateRows(ShrinkRows(s), 0)
    IN  [a EXCEPT !.obs.itShrink = TRUE, !.obs.shrinks = @ + 1]

\* if (fr >= f[vh]) contract, and shrink when the contraction does not improve
Contract(s) ==
    IF DLess(s.run.fr, s.nm.f[s.nm.vh]) THEN s
    ELSE
    LET a == [s EXCEPT !.nm.vc = ContractionPoint(s), !.obs.clean.vc = FALSE]
        b == ConstrainVc(a)
        c == doEvaluate(b, b.nm.vc, b.obs.clean.vc)
        d == [c EXCEPT !.run.fc = c.run.ret,
                       !.obs.itCon = TRUE,
                       !.obs.contractions = @ + 1]
    IN  IF DLess(d.run.fc, d.nm.f[d.nm.vg])
        THEN ReplaceWorst(d, d.nm.vc, d.run.fc, d.obs.clean.vc)
        ELSE Shrink(d)

\* ShrinkRedo without the two evaluations
ShrinkRedo_ConstrainOnly(s) ==
    LET a == ConstrainRow(s, s.nm.vg)
    IN  ConstrainRow(a, a.nm.vh)

\* after the shrink's doIndexes: constrain and re-evaluate v[vg], then v[vh]
ShrinkRedo(s) ==
    LET a == EvaluateRow(ConstrainRow(s, s.nm.vg), s.nm.vg)
    IN  EvaluateRow(ConstrainRow(a, a.nm.vh), a.nm.vh)

RECURSIVE MinValue(_, _)
\* the least of f[j..]
MinValue(f, j) ==
    IF j + 1 \notin DOMAIN f THEN f[j]
    ELSE LET r == MinValue(f, j + 1) IN IF DLess(r, f[j]) THEN r ELSE f[j]

\* the end of the loop body: the convergence test, then break or loop
EndIteration(s) ==
    [s EXCEPT !.run.pc = IF Converged(s.nm.f, s.nm.size, s.run.tolerancee)
                         THEN "final" ELSE "loop",
              !.obs.minPrev = s.obs.minNow,
              !.obs.minNow = MinValue(s.nm.f, 0)]

\* the results stuffed at the end of exec
Finish(s) ==
    LET a == doEvaluate(s, s.nm.v[s.nm.vs], s.obs.clean.v[s.nm.vs])
    IN  [a EXCEPT !.nm.lastExecResults =
                      [ min |-> a.run.ret,
                        evalCount |-> a.nm.evalCount,
                        iterationCount |-> a.run.iterationCount,
                        minValues |-> a.nm.v[a.nm.vs] ],
                  !.run = Idle]

---------------------------------------------------------------------------
(* the steps of exec *)

\* exec up to the loop: doInitialize, the constraint of the starting simplex,
\* its evaluation, and iterationCount = 0
EnterCall(s, start, tolerancee, scale) ==
    LET a == [s EXCEPT !.obs = [NoHistory(s.nm.size) EXCEPT !.left = s.obs.left - 1,
                                    !.runs = s.obs.runs + 1,
                                    !.clean.vr = s.obs.clean.vr,
                                    !.clean.ve = s.obs.clean.ve,
                                    !.clean.vc = s.obs.clean.vc]]
        b == EvaluateRows(ConstrainRows(doInitialize(a, start, scale), 0), 0)
    IN  [b EXCEPT !.run = [Idle EXCEPT !.pc = "loop",
                                       !.start = start,
                                       !.tolerancee = tolerancee,
                                       !.scale = scale,
                                       !.iterationCount = 0,
                                       !.ret = b.run.ret],
                  !.obs.call = [ start |-> start, tolerancee |-> tolerancee, scale |-> scale,
                                 maxIterations |-> s.nm.configMaxIterations,
                                 reflection |-> s.nm.configReflectionCoefficient,
                                 contraction |-> s.nm.configContractionCoefficient,
                                 expansion |-> s.nm.configExpansionCoefficient ],
                  !.obs.fStart = b.nm.f,
                  !.obs.minNow = MinValue(b.nm.f, 0),
                  !.obs.minPrev = MinValue(b.nm.f, 0)]

\* a freshly constructed object of the dimension, callbacks and configuration of o
FreshFor(o) ==
    [ nm |-> [Constructed(o.size, o.evalFunc, o.constrainFunc) EXCEPT
                  !.configMaxIterations = o.configMaxIterations,
                  !.configReflectionCoefficient = o.configReflectionCoefficient,
                  !.configContractionCoefficient = o.configContractionCoefficient,
                  !.configExpansionCoefficient = o.configExpansionCoefficient],
      run |-> Idle,
      obs |-> NoHistory(o.size) ]

\* the call enters exec; on an object used before, its twin enters it too
Enter(s, start, tolerancee, scale) ==
    [EnterCall(s, start, tolerancee, scale) EXCEPT
        !.obs.twin = IF s.obs.runs > 0
                     THEN EnterCall(FreshFor(s.nm), start, tolerancee, scale)
                     ELSE <<>>]

\* while (++iterationCount <= configMaxIterations)
Test(s) ==
    LET n == Incr(s.run.iterationCount)
    IN  [s EXCEPT !.run.iterationCount = n,
                  !.run.pc = IF n <= s.nm.configMaxIterations THEN "indexes" ELSE "final"]

\* the loop body from the centroid to the contraction, and to the convergence
\* test unless the simplex was shrunk
Transform(s) ==
    LET a == [s EXCEPT !.obs.itExp = FALSE, !.obs.itCon = FALSE,
                       !.obs.itShrink = FALSE, !.obs.itRepl = 0]
        b == Contract(Expand(AcceptReflection(Reflect(Centroid(a)))))
    IN  IF b.obs.itShrink THEN [b EXCEPT !.run.pc = "shrunk"] ELSE EndIteration(b)

\* doIndexes at the top of the loop body
TopIndexes(s) == [doIndexes(s) EXCEPT !.run.pc = "body", !.obs.bodies = @ + 1]
\* doIndexes after the shrink
MidIndexes(s) == [doIndexes(s) EXCEPT !.run.pc = "redo"]
\* doIndexes after the loop
LastIndexes(s) == [doIndexes(s) EXCEPT !.run.pc = "result"]
\* the end of the shrink, and of the iteration that shrank
ShrinkDone(s) == EndIteration(ShrinkRedo(s))

\* the step of exec that the activation of s is at
Step(s) ==
    CASE s.run.pc = "loop" -> Test(s)
      [] s.run.pc = "indexes" -> TopIndexes(s)
      [] s.run.pc = "body" -> Transform(s)
      [] s.run.pc = "shrunk" -> MidIndexes(s)
      [] s.run.pc = "redo" -> ShrinkDone(s)
      [] s.run.pc = "final" -> LastIndexes(s)
      [] s.run.pc = "result" -> Finish(s)
      [] OTHER -> s

\* t, the state after a step from s, with the twin of s a step further as well
Together(t, s) ==
    IF s.obs.runs > 1 THEN [t EXCEPT !.obs.twin = Step(s.obs.twin)] ELSE t

Become(s) == nm' = s.nm /\ run' = s.run /\ obs' = s.obs

\* the numbers of the simplex and of the value table
SimplexNumbers(s) ==
    {s.nm.v[j][i] : j \in Rows(s.nm.size), i \in Cols(s.nm.size)}
        \cup {s.nm.f[j] : j \in Rows(s.nm.size)}

\* the numbers of the simplex are within the range the model computes in
Fits(s) ==
    LET E == CHOOSE e \in {x[2] : x \in SimplexNumbers(s)} :
                 \A x \in SimplexNumbers(s) : x[2] <= e
    IN  /\ E <= ExpLimit
        /\ \A x \in SimplexNumbers(s) : Abs(x[1]) < NumLimit \div (2 ^ (E - x[2]))

Exec ==
    /\ run.pc = "idle"
    /\ obs.left > 0
    /\ \E start \in Points(nm.size), tolerancee \in Tolerances, scale \in Scales :
           Become(Enter(State, start, tolerancee, scale))

LoopTest ==
    /\ run.pc = "loop"
    /\ obs.bodies < MaxBodies
    /\ Fits(State)
    /\ Become(Together(Test(State), State))

Indexes ==
    /\ run.pc = "indexes"
    /\ Become(Together(TopIndexes(State), State))

Body ==
    /\ run.pc = "body"
    /\ Become(Together(Transform(State), State))

ShrinkIndexes ==
    /\ run.pc = "shrunk"
    /\ Become(Together(MidIndexes(State), State))

ShrinkEnd ==
    /\ run.pc = "redo"
    /\ Become(Together(ShrinkDone(State), State))

FinalIndexes ==
    /\ run.pc = "final"
    /\ Become(Together(LastIndexes(State), State))

Return ==
    /\ run.pc = "result"
    /\ Become(Together(Finish(State), State))

(* the setters, called before an exec call *)

setMaxIterations ==
    /\ run.pc = "idle"
    /\ obs.left > 0
    /\ \E inValue \in MaxIterationsValues :
           nm' = [nm EXCEPT !.configMaxIterations = inValue]
    /\ UNCHANGED <<run, obs>>

setReflectionCoefficient ==
    /\ run.pc = "idle"
    /\ obs.left > 0
    /\ \E inValue \in ReflectionValues :
           nm' = [nm EXCEPT !.configReflectionCoefficient = inValue]
    /\ UNCHANGED <<run, obs>>

setContractionCoefficient ==
    /\ run.pc = "idle"
    /\ obs.left > 0
    /\ \E inValue \in ContractionValues :
           nm' = [nm EXCEPT !.configContractionCoefficient = inValue]
    /\ UNCHANGED <<run, obs>>

setExpansionCoefficient ==
    /\ run.pc = "idle"
    /\ obs.left > 0
    /\ \E inValue \in ExpansionValues :
           nm' = [nm EXCEPT !.configExpansionCoefficient = inValue]
    /\ UNCHANGED <<run, obs>>

Next ==
    \/ Exec
    \/ LoopTest
    \/ Indexes
    \/ Body
    \/ ShrinkIndexes
    \/ ShrinkEnd
    \/ FinalIndexes
    \/ Return
    \/ setMaxIterations
    \/ setReflectionCoefficient
    \/ setContractionCoefficient
    \/ setExpansionCoefficient

Spec == Init /\ [][Next]_vars

---------------------------------------------------------------------------
(* an object used for two exec calls *)

\* the objects followed through two calls: <<size, evalFunc, constrainFunc>>
ReuseObjects == {<<1, "abs", "none">>, <<2, "cave", "snap">>}
\* the arguments of these calls: <<start, tolerancee, scale>>
ReuseCalls(size) ==
    { <<[i \in Cols(size) |-> IF i = 1 THEN D(0) ELSE D(3)], D(0), D(2)>>,
      <<[i \in Cols(size) |-> D(3)], D(1), D(1)>> }

InitReuse ==
    /\ \E o \in ReuseObjects :
           /\ nm = Constructed(o[1], o[2], o[3])
           /\ obs = [NoHistory(o[1]) EXCEPT !.left = 2]
    /\ run = Idle

ExecReuse ==
    /\ run.pc = "idle"
    /\ obs.left > 0
    /\ \E c \in ReuseCalls(nm.size) : Become(Enter(State, c[1], c[2], c[3]))

NextReuse ==
    \/ ExecReuse
    \/ LoopTest
    \/ Indexes
    \/ Body
    \/ ShrinkIndexes
    \/ ShrinkEnd
    \/ FinalIndexes
    \/ Return
    \/ setMaxIterations
    \/ setReflectionCoefficient
    \/ setContractionCoefficient
    \/ setExpansionCoefficient

SpecReuse == InitReuse /\ [][NextReuse]_vars

---------------------------------------------------------------------------
(* doIndexes on value tables the runs above do not produce *)

\* the dimension and the values of the drawn tables
TableSize == (CHOOSE n \in Sizes : \A k \in Sizes : k <= n) + 1
TableValues == {D(0), D(1), D(2)}

\* like Init, or an object whose value table and role indices are drawn
InitIndexes ==
    \/ Init
    \/ /\ \E table \in [Rows(TableSize) -> TableValues], oldVs, oldVg \in Rows(TableSize) :
              nm = [Constructed(TableSize, "const", "none") EXCEPT
                        !.f = table, !.vs = oldVs, !.vg = oldVg]
       /\ run = [Idle EXCEPT !.pc = "drawn"]
       /\ obs = NoHistory(TableSize)

CallIndexes ==
    /\ run.pc = "drawn"
    /\ Become([doIndexes(State) EXCEPT !.run.pc = "indexed"])

NextIndexes == Next \/ CallIndexes

SpecIndexes == InitIndexes /\ [][NextIndexes]_vars

---------------------------------------------------------------------------
(* properties *)

\* exec has returned and stored its results
Returned == run.pc = "idle" /\ obs.runs > 0
\* the loop body has just ended (or the loop has not begun): the program is
\* at the loop test, or has left the loop
AtIterationEnd == run.pc \in {"loop", "final", "result"}
\* doIndexes has just returned
AfterIndexes == run.pc \in {"body", "redo", "result", "indexed"}

\* C1: the iterationCount of the Result is the number of loop iterations
\* performed; it never exceeds configMaxIterations
C1_IterationCountIsIterations ==
    Returned =>
        /\ nm.lastExecResults.iterationCount = obs.bodies
        /\ nm.lastExecResults.iterationCount <= nm.configMaxIterations

\* C2: the evalCount of the Result is the number of calls of the objective:
\* size+1 for the starting simplex, one per reflection, expansion and
\* contraction, size+1+2 per shrink, and one for the final evaluation
C2_EvalCountIsEvaluations ==
    Returned =>
        /\ nm.lastExecResults.evalCount = obs.evals
        /\ obs.evals = (nm.size + 1) + obs.bodies + obs.expansions + obs.contractions
                         + obs.shrinks * (nm.size + 1 + 2) + 1

\* C5: with a constraint function, every point handed to the objective was
\* constrained after its coordinates were last computed
C5_EvaluatedPointsConstrained == obs.raw = 0

\* C7: the loop body runs at most configMaxIterations times in one exec call
C7_AtMostMaxIterationsBodies == run.pc # "idle" => obs.bodies <= nm.configMaxIterations

\* C8: an iteration takes one branch: it does not evaluate both an expansion
\* and a contraction point, and replaces v[vg] at most once unless it shrinks
C8_OneBranchPerIteration ==
    /\ ~(obs.itExp /\ obs.itCon)
    /\ obs.itShrink \/ obs.itRepl <= 1


\* the first index of the set S of rows whose value no row of S exceeds
FirstGreatest(f, S) ==
    CHOOSE j \in S :
        /\ \A k \in S : DLeq(f[k], f[j])
        /\ \A k \in S : k < j => DLess(f[k], f[j])

ExtremesFound ==
    /\ \A j \in DOMAIN nm.f : DLeq(nm.f[nm.vs], nm.f[j])
    /\ \A j \in DOMAIN nm.f : DLeq(nm.f[j], nm.f[nm.vg])

\* the rows whose value is strictly less than the greatest
BelowGreatest == {j \in DOMAIN nm.f : DLess(nm.f[j], nm.f[nm.vg])}
\* the rows whose value is strictly between the least and the greatest
Between == {j \in BelowGreatest : DLess(nm.f[nm.vs], nm.f[j])}

\* C9 as claimed, for the calls exec makes: after doIndexes f[vs] is the least
\* and f[vg] the greatest value, and vh is the first row, in scan order, that
\* attains the greatest value strictly less than f[vg] (vh = vs when there is
\* none)
C9_SecondIsFirstBelowGreatest ==
    run.pc \in {"body", "redo", "result"} =>
        /\ ExtremesFound
        /\ nm.vh = IF BelowGreatest = {} THEN nm.vs ELSE FirstGreatest(nm.f, BelowGreatest)

\* C9 as amended: after doIndexes f[vs] is the least and f[vg] the greatest
\* value, and vh is the first row, in scan order, that attains the greatest
\* value strictly between f[vs] and f[vg]; when no value lies strictly
\* between them, vh = vs
C9_SecondIsFirstBetween ==
    AfterIndexes =>
        /\ ExtremesFound
        /\ nm.vh = IF Between = {} THEN nm.vs ELSE FirstGreatest(nm.f, Between)

\* all the coordinates of the point x lie in the box
InBox(x) == \A i \in DOMAIN x : DLeq(BoxLo, x[i]) /\ DLeq(x[i], BoxHi)

\* C3: with the clamping constraint function every vertex of the simplex lies
\* in the box at the end of every iteration, and so does the reported minimum
C3_SimplexInBox ==
    nm.constrainFunc = "box" =>
        /\ AtIterationEnd => \A j \in Rows(nm.size) : InBox(nm.v[j])
        /\ Returned => InBox(nm.lastExecResults.minValues)

\* C4: at the end of every iteration and at finalization, f[i] is the
\* objective at the current v[i], for every row i
C4_ValuesMatchVertices ==
    AtIterationEnd =>
        \A i \in Rows(nm.size) : nm.f[i] = Objective(nm.evalFunc, nm.v[i])

\* C10: without a constraint function or with the clamping one, the least
\* value of the table does not increase from the end of one iteration to the
\* end of the next, and the reported min is at most the objective at every
\* vertex of the constrained starting simplex
C10_MinimumNeverIncreases ==
    nm.constrainFunc \in {"none", "box"} =>
        /\ AtIterationEnd => DLeq(obs.minNow, obs.minPrev)
        /\ Returned => \A j \in DOMAIN obs.fStart :
                           DLeq(nm.lastExecResults.min, obs.fStart[j])


\* C6: the Result an exec call stores is the Result the same call stores on a
\* freshly constructed object with the same dimension, callbacks and
\* configuration, whatever calls the object served before
C6_ResultAsOnFreshObject ==
    Returned /\ obs.runs > 1 =>
        /\ obs.twin.run.pc = "idle"
        /\ nm.lastExecResults = obs.twin.nm.lastExecResults


---------------------------------------------------------------------------
(* states in which the properties above are at work *)

\* the rows of the simplex are not all the same point
Spread == \E j \in Rows(nm.size) : nm.v[j] # nm.v[0]
\* the starting point of the call lies outside the box
StartOutside == ~InBox(obs.call.start)

\* C3: an iteration that shrank a simplex with distinct vertices has ended,
\* under the clamping constraint and from a starting point outside the box
C3_Witness ==
    /\ nm.constrainFunc = "box"
    /\ run.pc = "loop"
    /\ obs.itShrink
    /\ Spread
    /\ StartOutside

\* C4: an iteration that shrank the simplex has ended, under the snapping
\* constraint, with a vertex other than v[vs] on the lattice
C4_Witness ==
    /\ run.pc = "loop"
    /\ obs.itShrink
    /\ nm.constrainFunc = "snap"
    /\ Spread
    /\ \E j \in Rows(nm.size) : nm.v[j] = Constrained("snap", nm.v[j]) /\ nm.v[j] # nm.v[nm.vs]

\* C6: the second exec call on an object has returned; it expanded and shrank
C6_Witness ==
    /\ Returned
    /\ obs.runs = 2
    /\ obs.bodies > 1
    /\ obs.shrinks > 0
    /\ obs.expansions > 0

\* C9: doIndexes has returned on a table where two rows tie on the greatest
\* value strictly between the least and the greatest, and vh is the first
C9_Witness ==
    /\ AfterIndexes
    /\ \E j, k \in Between : j < k /\ nm.f[j] = nm.f[k] /\ nm.vh = j
    /\ nm.vs > 0

\* C10: with the clamping constraint an iteration has ended that shrank the
\* simplex and constrained v[vs] again as vh, with the least value of the
\* table below the value at the starting point
C10_Witness ==
    /\ nm.constrainFunc = "box"
    /\ run.pc = "loop"
    /\ obs.itShrink
    /\ nm.vh = nm.vs
    /\ Spread
    /\ DLess(obs.minNow, obs.fStart[0])

====
